---- MODULE Spec2Model ----
(***************************************************************************)
(* ArtistsController (music_assistant/controllers/music/artists.py):      *)
(* the artists table and its insert/update operations, the merge of the   *)
(* per-provider listings (toptracks / albums), the concurrent gather of   *)
(* the per-provider fetches, and the cross-provider matching.             *)
(*                                                                         *)
(* MediaItemMetadata is not part of this source file; the metadata column *)
(* is left out of the rows.                                                *)
(***************************************************************************)
EXTENDS Integers, Sequences, FiniteSets, TLC

VARIABLES
    artists,    \* TABLE_ARTISTS: the rows in rowid order
    last,       \* the last completed controller call: arguments, table before, outcome
    ncalls,     \* the number of controller calls made so far
    kind,       \* the listing asked for: "toptracks" or "albums"
    gathered,   \* what asyncio.gather returned: one result list per coroutine
    final,      \* list(final_items.values()), once the call has returned
    apc,        \* where the toptracks / albums call stands
    dispatch,   \* artist.provider_ids in the order the coroutines are created
    fpc,        \* where each per-provider fetch stands
    fres,       \* what each per-provider fetch returned
    completed,  \* the fetches in the order they completed
    cache,      \* mass.cache: the stored [key, value] entries
    writebacks, \* the cache.set tasks created and not yet run
    marg,       \* match_artist: the db_artist object it was called with
    mpc,        \* match_artist / _match: where the call stands
    pidx,       \* match_artist: the position of the loop in mass.music.providers
    cur_prov_types, \* match_artist: cur_prov_types
    refs,       \* _match: the reference tracks or albums of the running phase
    ri,         \* _match: the position of the reference loop
    si,         \* _match: the position of the search_str loop
    attempts,   \* match_artist: per provider, how the loop dealt with it
    mlog,       \* _match: what the running (or last) _match call did
    flog,       \* per fetch: what cache.get found and what the provider answered
    addcall,    \* add: the item, where the call stands, the row it inserted
    db_tracks,  \* TABLE_TRACKS: the rows in rowid order
    db_albums,  \* TABLE_ALBUMS: the rows in rowid order
    dcall,      \* delete_db_item: the item_id and where the call stands
    ucalls      \* concurrent update_db_item calls: item, cur_item, position

repoVars == <<artists, last, ncalls>>

mergeVars == <<kind, gathered, final, apc>>

fetchVars == <<dispatch, fpc, fres, completed, cache, writebacks, flog>>

matchVars == <<marg, mpc, pidx, cur_prov_types, refs, ri, si, attempts, mlog>>

addVars == <<addcall>>

deleteVars == <<db_tracks, db_albums, dcall>>

updateVars == <<ucalls>>

vars == <<artists, last, ncalls, kind, gathered, final, apc,
          dispatch, fpc, fres, completed, cache, writebacks,
          marg, mpc, pidx, cur_prov_types, refs, ri, si, attempts, mlog,
          flog, addcall, db_tracks, db_albums, dcall, ucalls>>

\* no value (None)
None == "None"

(***************************************************************************)
(* Bounds and value universes                                              *)
(***************************************************************************)
\* the number of repository calls in one behaviour
MaxCalls == 3

\* a falsy musicbrainz_id (None or "")
NoMbid == ""

Mbids == {NoMbid, "mb-1", "mb-2"}

\* <<name, sort_name>>
ArtistNames == {<<"Abba", "abba">>, <<"Queen", "queen">>}

\* MediaItemProviderId triples
Mapping(t, p, i) == [prov_type |-> t, prov_id |-> p, item_id |-> i]

\* the registered provider instances (mass.music.providers), in list order
Providers ==
    << [id |-> "tidal_1", type |-> "tidal", artists |-> TRUE],
       [id |-> "spotify_1", type |-> "spotify", artists |-> TRUE],
       [id |-> "spotify_2", type |-> "spotify", artists |-> TRUE],
       [id |-> "qobuz_1", type |-> "qobuz", artists |-> TRUE],
       [id |-> "tunein_1", type |-> "tunein", artists |-> FALSE] >>

RepoMappings == {Mapping("spotify", "spotify_1", "sp-1"), Mapping("qobuz", "qobuz_1", "qb-1")}

\* the Artist objects handed to add_db_item / update_db_item: one mapping each,
\* and an artist without provider_ids and one that spotify_1 knows under
\* another item_id
ArtistItems ==
    { [name |-> n[1], sort_name |-> n[2], musicbrainz_id |-> g, provider_ids |-> {m}] :
        n \in ArtistNames, g \in Mbids, m \in RepoMappings }
    \cup
    { [name |-> "Abba", sort_name |-> "abba", musicbrainz_id |-> NoMbid, provider_ids |-> ms] :
        ms \in {{}, {Mapping("spotify", "spotify_1", "sp-2")}} }

NoCall ==
    [op |-> "none", item_id |-> 0, item |-> 0, overwrite |-> FALSE,
     before |-> <<>>, raised |-> FALSE, event |-> "none"]

(***************************************************************************)
(* Database helpers                                                        *)
(***************************************************************************)
\* the positions of the rows a match predicate selects
RowsWhereMbid(tbl, mbid) == {i \in 1..Len(tbl) : tbl[i].musicbrainz_id = mbid}

RowsWhereSortName(tbl, sn) == {i \in 1..Len(tbl) : tbl[i].sort_name = sn}

RowsWhereItemId(tbl, id) == {i \in 1..Len(tbl) : tbl[i].item_id = id}

ItemIds(tbl) == {tbl[i].item_id : i \in 1..Len(tbl)}

\* get_db_item(item_id): the row, for an id the table holds
GetDbItem(tbl, id) == tbl[CHOOSE i \in RowsWhereItemId(tbl, id) : TRUE]

\* AUTOINCREMENT primary key of an inserted row
NewItemId(tbl) == Len(tbl) + 1

\* item.to_db_row() as stored by database.insert
ToDbRow(item, id) ==
    [item_id |-> id, name |-> item.name, sort_name |-> item.sort_name,
     musicbrainz_id |-> item.musicbrainz_id, provider_ids |-> item.provider_ids]

(***************************************************************************)
(* update_db_item                                                          *)
(***************************************************************************)
\* faulty variant: drops the existing mappings in merge mode
ProviderIdsOverwriteAlways(cur, item, overwrite) == item.provider_ids

\* lines 209-214: provider_ids of the updated row
UpdatedProviderIds(cur, item, overwrite) ==
    IF overwrite THEN item.provider_ids
    ELSE cur.provider_ids \cup item.provider_ids

\* line 223: item.musicbrainz_id or cur_item.musicbrainz_id
UpdatedMbid(cur, item, overwrite) ==
    IF item.musicbrainz_id # NoMbid THEN item.musicbrainz_id ELSE cur.musicbrainz_id

\* lines 217-228: the row database.update writes
UpdatedRow(cur, item, overwrite) ==
    [item_id |-> cur.item_id,
     name |-> IF overwrite THEN item.name ELSE cur.name,
     sort_name |-> IF overwrite THEN item.sort_name ELSE cur.sort_name,
     musicbrainz_id |-> UpdatedMbid(cur, item, overwrite),
     provider_ids |-> UpdatedProviderIds(cur, item, overwrite)]

\* the table after update_db_item(id, item, overwrite) on a stored id
TableAfterUpdate(tbl, id, item, overwrite) ==
    [i \in 1..Len(tbl) |->
        IF tbl[i].item_id = id THEN UpdatedRow(tbl[i], item, overwrite) ELSE tbl[i]]

\* update_db_item(item_id, item, overwrite); get_db_item of an id the table
\* does not hold returns None and line 213/221 raises
UpdateDbItem(id, item, overwrite) ==
    IF id \in ItemIds(artists)
    THEN /\ artists' = TableAfterUpdate(artists, id, item, overwrite)
         /\ last' = [op |-> "update", item_id |-> id, item |-> item,
                     overwrite |-> overwrite, before |-> artists,
                     raised |-> FALSE, event |-> "MEDIA_ITEM_UPDATED"]
    ELSE /\ artists' = artists
         /\ last' = [op |-> "update", item_id |-> id, item |-> item,
                     overwrite |-> overwrite, before |-> artists,
                     raised |-> TRUE, event |-> "none"]

(***************************************************************************)
(* add_db_item                                                             *)
(***************************************************************************)
\* faulty variant: looks the item up by sort_name only
CurItemsBySortNameOnly(tbl, item) == RowsWhereSortName(tbl, item.sort_name)

\* faulty variant: leaves out the sort_name fallback
CurItemsByMbidOnly(tbl, item) ==
    IF item.musicbrainz_id # NoMbid THEN RowsWhereMbid(tbl, item.musicbrainz_id) ELSE {}

\* lines 161-178: the rows cur_item may be (the queries carry no ORDER BY):
\* the musicbrainz_id match when there is one, else the sort_name matches
CurItems(tbl, item) ==
    IF item.musicbrainz_id # NoMbid /\ RowsWhereMbid(tbl, item.musicbrainz_id) # {}
    THEN RowsWhereMbid(tbl, item.musicbrainz_id)
    ELSE RowsWhereSortName(tbl, item.sort_name)

\* faulty variant: accepts an item without provider_ids
AssertsNothing(item) == TRUE

\* line 158: assert item.provider_ids
HasProviderIds(item) == item.provider_ids # {}

\* add_db_item(item, overwrite_existing)
AddDbItem(item, overwrite) ==
    IF ~HasProviderIds(item)
    THEN \* line 158: the assertion fails
         /\ artists' = artists
         /\ last' = [op |-> "add", item_id |-> 0, item |-> item,
                     overwrite |-> overwrite, before |-> artists,
                     raised |-> TRUE, event |-> "none"]
    ELSE IF CurItems(artists, item) # {}
    THEN \* lines 179-183: update existing
         \E i \in CurItems(artists, item) :
            /\ artists' = TableAfterUpdate(artists, artists[i].item_id, item, overwrite)
            /\ last' = [op |-> "add", item_id |-> artists[i].item_id, item |-> item,
                        overwrite |-> overwrite, before |-> artists,
                        raised |-> FALSE, event |-> "MEDIA_ITEM_UPDATED"]
    ELSE \* lines 185-198: insert item
         /\ artists' = Append(artists, ToDbRow(item, NewItemId(artists)))
         /\ last' = [op |-> "add", item_id |-> NewItemId(artists), item |-> item,
                     overwrite |-> overwrite, before |-> artists,
                     raised |-> FALSE, event |-> "MEDIA_ITEM_ADDED"]

(***************************************************************************)
(* The repository specification                                            *)
(***************************************************************************)
RepoInit ==
    /\ artists = <<>>
    /\ last = NoCall
    /\ ncalls = 0

\* no listing call is running
MergeIdle ==
    /\ kind = None
    /\ gathered = <<>>
    /\ final = <<>>
    /\ apc = "idle"

\* no fetch is running and the cache is empty
FetchIdle ==
    /\ dispatch = <<>>
    /\ fpc = <<>>
    /\ fres = <<>>
    /\ completed = <<>>
    /\ cache = {}
    /\ writebacks = {}
    /\ flog = <<>>

\* what a _match call did: the searches and updates it made, whether a track
\* search / any search returned a result that matches on its sort_name and on
\* the sort_name of the database artist, the artist an album search confirmed
\* (with the reference album's artist), and what it returned
NoMatchLog ==
    [prov |-> 0, nsearch |-> 0, nupdate |-> 0, trackHit |-> FALSE, hitAt |-> 0,
     sawDouble |-> FALSE, albumHit |-> <<>>, before |-> <<>>, result |-> "none"]

\* no match_artist call is running
MatchIdle ==
    /\ marg = <<>>
    /\ mpc = "idle"
    /\ pidx = 0
    /\ cur_prov_types = {}
    /\ refs = <<>>
    /\ ri = 0
    /\ si = 0
    /\ attempts = <<>>
    /\ mlog = NoMatchLog

\* no add call is running
AddIdle == addcall = [pc |-> "idle", item |-> <<>>, created |-> 0]

\* no delete_db_item call is running, no tracks and albums are stored
DeleteIdle ==
    /\ db_tracks = <<>>
    /\ db_albums = <<>>
    /\ dcall = [pc |-> "idle", step |-> 0, item_id |-> 0]

\* no concurrent update_db_item calls are running
UpdatesIdle == ucalls = <<>>

OthersIdle == AddIdle /\ DeleteIdle /\ UpdatesIdle

Init == RepoInit /\ MergeIdle /\ FetchIdle /\ MatchIdle /\ OthersIdle

Add ==
    /\ ncalls < MaxCalls
    /\ ncalls' = ncalls + 1
    /\ UNCHANGED <<mergeVars, fetchVars, matchVars, addVars, deleteVars, updateVars>>
    /\ \E item \in ArtistItems, overwrite \in BOOLEAN : AddDbItem(item, overwrite)

Update ==
    /\ ncalls < MaxCalls
    /\ ncalls' = ncalls + 1
    /\ UNCHANGED <<mergeVars, fetchVars, matchVars, addVars, deleteVars, updateVars>>
    /\ \E id \in 1..(Len(artists) + 1), item \in ArtistItems, overwrite \in BOOLEAN :
            UpdateDbItem(id, item, overwrite)

Next == Add \/ Update

Spec == Init /\ [][Next]_vars

\* add_db_item as add calls it (line 86): overwrite_existing keeps its default
InsertOrMerge ==
    /\ ncalls < MaxCalls
    /\ ncalls' = ncalls + 1
    /\ UNCHANGED <<mergeVars, fetchVars, matchVars, addVars, deleteVars, updateVars>>
    /\ \E item \in ArtistItems : AddDbItem(item, FALSE)

\* the add_db_item calls of successive add calls, from the empty table
SpecInsertOrMerge == Init /\ [][InsertOrMerge]_vars

(***************************************************************************)
(* Claims about the repository                                             *)
(***************************************************************************)
\* the row the last call worked on, before and after it
CurRow == GetDbItem(last.before, last.item_id)

NewRow == GetDbItem(artists, last.item_id)

\* the last call ran update_db_item to its end (directly, or from add_db_item)
LastUpdated == ~last.raised /\ last.event = "MEDIA_ITEM_UPDATED"

\* C1: update_db_item with overwrite leaves the row's provider_ids equal to the
\* item's; without overwrite it leaves them equal to the union of the row's
\* previous provider_ids and the item's, and name and sort_name keep their
\* previous values.
C1_UpdateOverwriteVsMerge ==
    LastUpdated =>
        IF last.overwrite
        THEN NewRow.provider_ids = last.item.provider_ids
        ELSE /\ NewRow.provider_ids = CurRow.provider_ids \cup last.item.provider_ids
             /\ NewRow.name = CurRow.name
             /\ NewRow.sort_name = CurRow.sort_name

\* a merge update with an item that brings a new mapping and another name
C1_Witness ==
    /\ LastUpdated
    /\ last.op = "update"
    /\ ~last.overwrite
    /\ ~(last.item.provider_ids \subseteq CurRow.provider_ids)
    /\ ~(CurRow.provider_ids \subseteq last.item.provider_ids)
    /\ last.item.name # CurRow.name
    /\ last.item.sort_name # CurRow.sort_name

\* C2: add_db_item resolves identity by musicbrainz_id first and sort_name
\* second: an item whose musicbrainz_id equals a stored row's is merged into a
\* row with that musicbrainz_id, whatever the sort_names; an item without
\* musicbrainz_id whose sort_name equals a stored row's is merged into a row
\* with that sort_name; in both cases no row is inserted and no other row changes.
C2_IdentityFallback ==
    (last.op = "add" /\ ~last.raised) =>
        LET item == last.item
            byMbid == item.musicbrainz_id # NoMbid
                        /\ RowsWhereMbid(last.before, item.musicbrainz_id) # {}
            bySortName == item.musicbrainz_id = NoMbid
                        /\ RowsWhereSortName(last.before, item.sort_name) # {}
            merged == /\ Len(artists) = Len(last.before)
                      /\ last.item_id \in ItemIds(last.before)
                      /\ item.provider_ids \subseteq NewRow.provider_ids
                      /\ \A i \in 1..Len(artists) :
                            artists[i].item_id # last.item_id => artists[i] = last.before[i]
        IN  /\ byMbid => merged /\ CurRow.musicbrainz_id = item.musicbrainz_id
            /\ bySortName => merged /\ CurRow.sort_name = item.sort_name

\* an item is merged into the row with its musicbrainz_id while another row
\* carries its sort_name
C2_Witness ==
    /\ last.op = "add"
    /\ ~last.raised
    /\ last.item.musicbrainz_id # NoMbid
    /\ Len(artists) = Len(last.before)
    /\ last.item_id \in ItemIds(last.before)
    /\ CurRow.musicbrainz_id = last.item.musicbrainz_id
    /\ CurRow.sort_name # last.item.sort_name
    /\ RowsWhereSortName(last.before, last.item.sort_name) # {}

\* C3: a merge update (overwrite = FALSE) of a row that has a musicbrainz_id
\* leaves that musicbrainz_id unchanged whatever the item carries.
C3_MergeKeepsMbid ==
    (LastUpdated /\ ~last.overwrite /\ CurRow.musicbrainz_id # NoMbid) =>
        NewRow.musicbrainz_id = CurRow.musicbrainz_id

\* C12: add_db_item of an item without provider_ids raises and leaves the
\* table as it was: no row is inserted, no row is changed and no event is
\* signalled.
C12_EmptyMappingsAbort ==
    (last.op = "add" /\ last.item.provider_ids = {}) =>
        /\ last.raised
        /\ artists = last.before
        /\ last.event = "none"

\* the item without provider_ids carries the sort_name of a stored row
C12_Witness ==
    /\ last.op = "add"
    /\ last.item.provider_ids = {}
    /\ last.raised
    /\ RowsWhereSortName(last.before, last.item.sort_name) # {}
    /\ artists = last.before

\* no row holds two mappings of one provider instance with different item_ids
NoConflictingMappings(tbl) ==
    \A i \in 1..Len(tbl) :
        \A a, b \in tbl[i].provider_ids :
            (a.prov_type = b.prov_type /\ a.prov_id = b.prov_id) => a.item_id = b.item_id

\* C16: after any sequence of merge-mode add_db_item calls no row holds two
\* mappings with the same prov_type and prov_id and different item_ids.
C16_NoConflictingMappings == NoConflictingMappings(artists)

\* C20: from the empty table, after any sequence of merge-mode add_db_item
\* calls no two rows have the same sort_name: a row is inserted only when no
\* row had the item's sort_name, and a merge leaves every sort_name as it was.
C20_SortNamesUnique ==
    /\ \A i, j \in 1..Len(artists) : artists[i].sort_name = artists[j].sort_name => i = j
    /\ (last.op = "add" /\ last.event = "MEDIA_ITEM_ADDED") =>
            /\ RowsWhereSortName(last.before, last.item.sort_name) = {}
            /\ Len(artists) = Len(last.before) + 1
    /\ (last.op = "add" /\ last.event = "MEDIA_ITEM_UPDATED") =>
            /\ Len(artists) = Len(last.before)
            /\ \A i \in 1..Len(artists) : artists[i].sort_name = last.before[i].sort_name

\* two rows are stored and the last item was merged, by its musicbrainz_id,
\* into a row with another sort_name while the other row has the item's sort_name
C20_Witness ==
    /\ Len(artists) = 2
    /\ last.op = "add"
    /\ last.event = "MEDIA_ITEM_UPDATED"
    /\ CurRow.sort_name # last.item.sort_name
    /\ RowsWhereSortName(artists, last.item.sort_name) # {}

(***************************************************************************)
(* toptracks / albums: merging the gathered per-provider results           *)
(***************************************************************************)
\* the longest listing a provider returns
MaxListing == 2

\* <<name, version>> of the listed tracks and albums; the last two format to
\* the same key
ListedNames == {<<"Hey", "">>, <<"Hey", "Jude.Live">>, <<"Hey.Jude", "Live">>}

\* a Track / Album as provider prov lists it
ListedItem(prov, n, lib) ==
    [name |-> n[1], version |-> n[2], in_library |-> lib,
     provider_ids |-> {Mapping(prov.type, prov.id, n[1] \o "/" \o n[2])}]

ListedItems(prov) == {ListedItem(prov, n, lib) : n \in ListedNames, lib \in BOOLEAN}

SeqsUpTo(S, n) == UNION {[1..k -> S] : k \in 0..n}

\* the listings provider prov may return
Listings(prov) == SeqsUpTo(ListedItems(prov), MaxListing)

\* lines 49, 73: key = f".{name}.{version}"
MergeKey(it) == "." \o it.name \o "." \o it.version

\* itertools.chain.from_iterable
RECURSIVE Chain(_)
Chain(lists) == IF lists = <<>> THEN <<>> ELSE Head(lists) \o Chain(Tail(lists))

\* faulty variant: keeps the first item's provider_ids on a key collision
KeepFirstProviderIds(entry, it) == entry.provider_ids

\* lines 51, 75: final_items[key].provider_ids.update(item.provider_ids)
CollidedProviderIds(entry, it) == entry.provider_ids \cup it.provider_ids

\* faulty variant: sets in_library only on the item that created the entry
InLibraryOfFirst(entry, it, k) == entry.in_library

\* lines 78-79 (albums only): if album.in_library: final_items[key].in_library = True
StickyInLibrary(entry, it, k) ==
    IF k = "albums" /\ it.in_library THEN TRUE ELSE entry.in_library

\* one pass of the loop body, lines 48-53 / 72-79; final_items keeps insertion order
MergeOne(entries, it, k) ==
    LET hit == {i \in 1..Len(entries) : MergeKey(entries[i]) = MergeKey(it)}
    IN  IF hit # {}
        THEN [i \in 1..Len(entries) |->
                IF i \in hit
                THEN [entries[i] EXCEPT
                        !.provider_ids = CollidedProviderIds(entries[i], it),
                        !.in_library = StickyInLibrary(entries[i], it, k)]
                ELSE entries[i]]
        ELSE Append(entries, [it EXCEPT !.in_library = StickyInLibrary(it, it, k)])

\* the whole loop over the chained results
RECURSIVE MergeFrom(_, _, _)
MergeFrom(entries, items, k) ==
    IF items = <<>> THEN entries
    ELSE MergeFrom(MergeOne(entries, Head(items), k), Tail(items), k)

\* lines 45-54 / 69-80
MergeDuplicates(lists, k) == MergeFrom(<<>>, Chain(lists), k)

\* the orders in which two registered providers' results are gathered
MergeOrders == {<<2, 4>>, <<4, 2>>}

\* the results are in: any listing from each provider, in either order
MergeInit ==
    /\ RepoInit
    /\ FetchIdle
    /\ MatchIdle
    /\ OthersIdle
    /\ kind \in {"toptracks", "albums"}
    /\ \E o \in MergeOrders :
          gathered \in {<<a, b>> : a \in Listings(Providers[o[1]]), b \in Listings(Providers[o[2]])}
    /\ final = <<>>
    /\ apc = "gathered"

\* lines 46-54 / 70-80
Merge ==
    /\ apc = "gathered"
    /\ final' = MergeDuplicates(gathered, kind)
    /\ apc' = "done"
    /\ UNCHANGED <<kind, gathered>>
    /\ UNCHANGED <<repoVars, fetchVars, matchVars, addVars, deleteVars, updateVars>>

SpecMerge == MergeInit /\ [][Merge]_vars

\* the keys of a list of items
Keys(items) == {MergeKey(items[i]) : i \in 1..Len(items)}

\* C4: the merge returns exactly one entry per distinct merge key of the
\* gathered results, and the entry's provider_ids is the union of the
\* provider_ids of every gathered result with that key, in whatever order the
\* results were gathered.
C4_OneEntryPerKey ==
    apc = "done" =>
        LET flat == Chain(gathered)
        IN  /\ Keys(final) = Keys(flat)
            /\ \A i, j \in 1..Len(final) :
                    MergeKey(final[i]) = MergeKey(final[j]) => i = j
            /\ \A i \in 1..Len(final) :
                    final[i].provider_ids =
                        UNION {flat[j].provider_ids :
                                j \in {x \in 1..Len(flat) : MergeKey(flat[x]) = MergeKey(final[i])}}

\* two providers list the same key, next to another key
C4_Witness ==
    /\ apc = "done"
    /\ Len(final) = 2
    /\ \E i \in 1..2 :
          /\ {m.prov_id : m \in final[i].provider_ids} = {"spotify_1", "qobuz_1"}
          /\ Cardinality(final[i].provider_ids) = 2

\* C5: in the album merge, an entry is in_library whenever any gathered result
\* with its key is, wherever that result stands among the results with the key.
C5_InLibrarySticky ==
    (apc = "done" /\ kind = "albums") =>
        LET flat == Chain(gathered)
        IN  \A i \in 1..Len(final) :
                (\E j \in 1..Len(flat) :
                    MergeKey(flat[j]) = MergeKey(final[i]) /\ flat[j].in_library)
                => final[i].in_library

\* the first album with the key is not in the library, a later one is
C5_Witness ==
    /\ apc = "done"
    /\ kind = "albums"
    /\ LET flat == Chain(gathered)
       IN  /\ Len(flat) >= 2
           /\ ~flat[1].in_library
           /\ \E j \in 2..Len(flat) :
                 MergeKey(flat[j]) = MergeKey(flat[1]) /\ flat[j].in_library
           /\ final[1].in_library

(***************************************************************************)
(* toptracks / albums: the concurrent per-provider fetches                 *)
(***************************************************************************)
\* the provider_ids of the artist whose listing is asked for; the two spotify
\* instances know the artist under the same id, deezer_1 is not registered
ArtistMappings ==
    {Mapping("spotify", "spotify_1", "sp-1"), Mapping("spotify", "spotify_2", "sp-1"),
     Mapping("qobuz", "qobuz_1", "qb-1"), Mapping("deezer", "deezer_1", "dz-1")}

\* the orders in which the coroutines of lines 41-44 / 65-68 are created
DispatchOrders == {<<a, b>> : a, b \in ArtistMappings} \ {<<a, a>> : a \in ArtistMappings}

\* what a live get_artist_toptracks / get_artist_albums of prov may return
LiveNames == {<<"Hey", "">>, <<"Hey", "Jude.Live">>}

LiveListings(prov) ==
    SeqsUpTo({ListedItem(prov, n, FALSE) : n \in LiveNames}, MaxListing)

\* mass.music.get_provider(provider_id): the positions in Providers with that id
GetProvider(id) == {i \in 1..Len(Providers) : Providers[i].id = id}

ProviderOf(m) == Providers[CHOOSE i \in GetProvider(m.prov_id) : TRUE]

\* lines 124, 143: f"{prov.type.value}.artist_toptracks.{item_id}"
CacheKey(type, k, item_id) == type \o ".artist_" \o k \o "." \o item_id

\* the cache holds an entry under key
Stored(c, key) == \E e \in c : e.key = key

\* the entry the cache holds under key; by and op name the fetch whose cache.set
\* task stored it
CacheEntry(c, key) == CHOOSE e \in c : e.key = key

\* mass.cache.get(key): the stored value, None (here the empty list, as falsy)
\* when nothing is stored
CacheGet(c, key) == IF Stored(c, key) THEN CacheEntry(c, key).value ELSE <<>>

\* mass.cache.set(key, value), run by the task w
CacheSet(c, w) == {e \in c : e.key # w.key} \cup {w}

\* a cache.set task of lines 130-132 / 149-151, as created by a fetch of kind k
\* for the mapping m
CacheSetTask(key, value, m, k) == [key |-> key, value |-> value, by |-> m.prov_id, op |-> k]

\* nothing is known of a fetch
NoFetchLog ==
    [stored |-> FALSE, cached |-> <<>>, by |-> "", op |-> "", hit |-> FALSE,
     called |-> FALSE, answer |-> <<>>]

\* lines 124, 143: the cache_key of the fetch for the mapping m
FetchKey(m, k) == CacheKey(ProviderOf(m).type, k, m.item_id)

\* what the cache may hold when the call starts: nothing, or what the cache.set
\* task of an earlier toptracks / albums fetch for qobuz_1 stored, which may be
\* an empty listing
PriorCaches ==
    {{}} \cup
    {{CacheSetTask(FetchKey(m, k), items, m, k)} :
        m \in {Mapping("qobuz", "qobuz_1", "qb-1")},
        k \in {"toptracks", "albums"},
        items \in SeqsUpTo({ListedItem(Providers[4], <<"Hey", "">>, FALSE)}, 1)}

\* the artist's provider_ids are read and one coroutine per mapping is created
AggregateInit ==
    /\ RepoInit
    /\ MatchIdle
    /\ OthersIdle
    /\ kind \in {"toptracks", "albums"}
    /\ gathered = <<>>
    /\ final = <<>>
    /\ apc = "gathering"
    /\ dispatch \in DispatchOrders
    /\ fpc = [i \in 1..Len(dispatch) |-> "start"]
    /\ fres = [i \in 1..Len(dispatch) |-> <<>>]
    /\ completed = <<>>
    /\ cache \in PriorCaches
    /\ writebacks = {}
    /\ flog = [i \in 1..Len(dispatch) |-> NoFetchLog]

\* lines 125, 144: `if cache := await self.mass.cache.get(cache_key)`
CacheHit(value) == value # <<>>

\* lines 120-126 / 139-145: provider lookup and cache.get
FetchCacheGet(i) ==
    /\ fpc[i] = "start"
    /\ IF GetProvider(dispatch[i].prov_id) = {}
       THEN \* lines 121-122: return []
            /\ fpc' = [fpc EXCEPT ![i] = "done"]
            /\ fres' = [fres EXCEPT ![i] = <<>>]
            /\ completed' = Append(completed, i)
            /\ UNCHANGED flog
       ELSE LET key == FetchKey(dispatch[i], kind)
                value == CacheGet(cache, key)
                found == [flog[i] EXCEPT
                            !.stored = Stored(cache, key),
                            !.cached = value,
                            !.by = IF Stored(cache, key) THEN CacheEntry(cache, key).by ELSE "",
                            !.op = IF Stored(cache, key) THEN CacheEntry(cache, key).op ELSE "",
                            !.hit = CacheHit(value)]
            IN  /\ flog' = [flog EXCEPT ![i] = found]
                /\ IF CacheHit(value)
                   THEN \* lines 125-126: the cached items
                        /\ fpc' = [fpc EXCEPT ![i] = "done"]
                        /\ fres' = [fres EXCEPT ![i] = value]
                        /\ completed' = Append(completed, i)
                   ELSE /\ fpc' = [fpc EXCEPT ![i] = "live"]
                        /\ UNCHANGED <<fres, completed>>
    /\ UNCHANGED <<dispatch, cache, writebacks>>
    /\ UNCHANGED <<repoVars, mergeVars, matchVars, addVars, deleteVars, updateVars>>

\* faulty variant: returns what the cache holds under the key after the task
\* was created
ReturnsCached(items, c, key) == CacheGet(c, key)

\* lines 133, 152: return items
FetchReturns(items, c, key) == items

\* lines 128-133 / 147-152: the provider answers, the cache.set task is created
\* and the fetch returns
FetchLive(i) ==
    /\ fpc[i] = "live"
    /\ \E items \in LiveListings(ProviderOf(dispatch[i])) :
          LET key == FetchKey(dispatch[i], kind)
          IN  /\ flog' = [flog EXCEPT ![i].called = TRUE, ![i].answer = items]
              /\ writebacks' = writebacks \cup {CacheSetTask(key, items, dispatch[i], kind)}
              /\ fres' = [fres EXCEPT ![i] = FetchReturns(items, cache, key)]
    /\ fpc' = [fpc EXCEPT ![i] = "done"]
    /\ completed' = Append(completed, i)
    /\ UNCHANGED <<dispatch, cache>>
    /\ UNCHANGED <<repoVars, mergeVars, matchVars, addVars, deleteVars, updateVars>>

\* the cache or the provider raises inside the fetch
FetchFail(i) ==
    /\ \/ fpc[i] = "live"
       \/ fpc[i] = "start" /\ GetProvider(dispatch[i].prov_id) # {}
    /\ fpc' = [fpc EXCEPT ![i] = "failed"]
    /\ UNCHANGED <<dispatch, fres, completed, cache, writebacks, flog>>
    /\ UNCHANGED <<repoVars, mergeVars, matchVars, addVars, deleteVars, updateVars>>

\* a detached cache.set task (lines 130-132) runs
WriteBack ==
    /\ \E w \in writebacks :
          /\ cache' = CacheSet(cache, w)
          /\ writebacks' = writebacks \ {w}
    /\ UNCHANGED <<dispatch, fpc, fres, completed, flog>>
    /\ UNCHANGED <<repoVars, mergeVars, matchVars, addVars, deleteVars, updateVars>>

\* a detached cache.set task fails; nobody awaits it
WriteBackFail ==
    /\ \E w \in writebacks : writebacks' = writebacks \ {w}
    /\ UNCHANGED <<dispatch, fpc, fres, completed, cache, flog>>
    /\ UNCHANGED <<repoVars, mergeVars, matchVars, addVars, deleteVars, updateVars>>

\* faulty variant: collects the results as the fetches complete
ResultsInCompletionOrder(res, done) == [k \in 1..Len(done) |-> res[done[k]]]

\* line 45: asyncio.gather returns the results in the order of its awaitables
GatherResults(res, done) == [i \in 1..Len(res) |-> res[i]]

\* faulty variant: lets gather return once no fetch is pending
GatherSettled(pcs) == \A i \in 1..Len(pcs) : pcs[i] \in {"done", "failed"}

\* line 45: gather returns once every awaitable has returned
GatherReturns(pcs) == \A i \in 1..Len(pcs) : pcs[i] = "done"

\* line 45: gather raises the first exception of its awaitables
GatherRaises(pcs) == \E i \in 1..Len(pcs) : pcs[i] = "failed"

\* lines 45-54 / 69-80: gather returned, the results are merged and returned
AggregateReturn ==
    /\ apc = "gathering"
    /\ GatherReturns(fpc)
    /\ gathered' = GatherResults(fres, completed)
    /\ final' = MergeDuplicates(gathered', kind)
    /\ apc' = "done"
    /\ UNCHANGED kind
    /\ UNCHANGED <<repoVars, fetchVars, matchVars, addVars, deleteVars, updateVars>>

\* line 45 / 69: gather raised, and so does toptracks / albums
AggregateRaise ==
    /\ apc = "gathering"
    /\ GatherRaises(fpc)
    /\ apc' = "failed"
    /\ UNCHANGED <<kind, gathered, final>>
    /\ UNCHANGED <<repoVars, fetchVars, matchVars, addVars, deleteVars, updateVars>>

AggregateNext ==
    \/ \E i \in 1..Len(dispatch) : FetchCacheGet(i)
    \/ \E i \in 1..Len(dispatch) : FetchLive(i)
    \/ \E i \in 1..Len(dispatch) : FetchFail(i)
    \/ WriteBack
    \/ WriteBackFail
    \/ AggregateReturn
    \/ AggregateRaise

SpecAggregate == AggregateInit /\ [][AggregateNext]_vars

\* the position at which a key is first seen in a list of items
FirstSeen(items, key) ==
    CHOOSE j \in 1..Len(items) :
        /\ MergeKey(items[j]) = key
        /\ \A x \in 1..(j - 1) : MergeKey(items[x]) # key

\* what the fetches returned, chained in the order the coroutines were created
ReturnedInDispatchOrder == Chain([i \in 1..Len(dispatch) |-> fres[i]])

\* C6: the entries of the returned list stand in the order in which their keys
\* are first seen in the fetches' results taken in dispatch order, and the
\* list is the merge of those results, in whatever order the fetches completed.
C6_OrderByDispatch ==
    apc = "done" =>
        /\ Keys(final) = Keys(ReturnedInDispatchOrder)
        /\ \A p, q \in 1..Len(final) :
              p < q => FirstSeen(ReturnedInDispatchOrder, MergeKey(final[p]))
                        < FirstSeen(ReturnedInDispatchOrder, MergeKey(final[q]))
        /\ final = MergeDuplicates([i \in 1..Len(dispatch) |-> fres[i]], kind)

\* the second fetch completed first, and each fetch brought a key of its own
C6_Witness ==
    /\ apc = "done"
    /\ completed = <<2, 1>>
    /\ Len(final) = 2
    /\ MergeKey(final[1]) \in Keys(fres[1]) \ Keys(fres[2])
    /\ MergeKey(final[2]) \in Keys(fres[2]) \ Keys(fres[1])

\* C7: once one of the per-provider fetches has failed, the call never returns
\* a list: it has not returned and, when it ends, it ends failed.
C7_FetchFailureFailsAll ==
    GatherRaises(fpc) => apc \in {"gathering", "failed"} /\ final = <<>>

\* the call failed although another fetch had returned a non-empty listing
C7_Witness ==
    /\ apc = "failed"
    /\ \E i, j \in 1..Len(dispatch) :
          fpc[i] = "failed" /\ fpc[j] = "done" /\ fres[j] # <<>>

\* C14: a fetch that finds an entry stored under its key, whatever list the
\* entry holds (the empty list included), returns the stored list and does not
\* call the provider.
C14_StoredEntryBypassesLive ==
    \A i \in 1..Len(flog) :
        flog[i].stored =>
            /\ ~flog[i].called
            /\ fpc[i] = "done" => fres[i] = flog[i].cached

\* C15: a fetch that missed the cache has returned exactly what the provider
\* answered as soon as the provider answered, and that stays so whether its
\* cache.set task is still pending, has run or has failed.
C15_MissReturnsLiveResult ==
    \A i \in 1..Len(flog) :
        flog[i].called => fpc[i] = "done" /\ fres[i] = flog[i].answer

\* the call returned what the providers answered while the task of one fetch
\* had failed and the task of the other had not run yet
C15_Witness ==
    /\ apc = "done"
    /\ cache = {}
    /\ \E i, j \in 1..Len(flog) :
          /\ flog[i].called /\ flog[i].answer # <<>> /\ fres[i] = flog[i].answer
          /\ flog[j].called /\ flog[j].answer # <<>>
          /\ writebacks = {CacheSetTask(FetchKey(dispatch[j], kind), flog[j].answer,
                                         dispatch[j], kind)}
          /\ i # j

\* C18: a fetch that returns a cached listing returns one that the cache.set
\* task of a fetch for the same provider instance and the same operation stored.
C18_CacheKeyPerInstanceAndKind ==
    \A i \in 1..Len(flog) :
        flog[i].hit => flog[i].by = dispatch[i].prov_id /\ flog[i].op = kind

(***************************************************************************)
(* match_artist and _match                                                 *)
(***************************************************************************)
\* the longest list of reference tracks / albums
MaxRefs == 1

\* the longest list a search returns
MaxResults == 2

\* the ItemMapping of an artist on a track or an album of a provider
ArtistRefs ==
    {[name |-> "Abba", sort_name |-> "abba", item_id |-> "ar-abba"],
     [name |-> "Queen", sort_name |-> "queen", item_id |-> "ar-queen"]}

\* the reference tracks toptracks may return
RefTracks ==
    {[name |-> "Waterloo", sort_name |-> "waterloo"],
     [name |-> "Fernando", sort_name |-> "fernando"]}

\* the tracks tracks.search may return: artists is the list of credited artists
TrackResults ==
    {[sort_name |-> t.sort_name, artists |-> a] :
        t \in RefTracks,
        a \in {<<x>> : x \in ArtistRefs}
                \cup {<<x, y>> : x \in {z \in ArtistRefs : z.sort_name # "abba"},
                                 y \in {z \in ArtistRefs : z.sort_name = "abba"}}}

\* the reference albums albums may return: artist is <<>> for None
RefAlbums ==
    {[name |-> "Arrival", sort_name |-> "arrival", album_type |-> "album", artist |-> a] :
        a \in {<<>>} \cup {<<x>> : x \in ArtistRefs}}
    \cup
    {[name |-> "Arrival", sort_name |-> "arrival", album_type |-> "compilation", artist |-> a] :
        a \in {<<x>> : x \in {z \in ArtistRefs : z.sort_name = "abba"}}}

\* the albums albums.search may return
AlbumResults ==
    {[sort_name |-> n, artist |-> a] :
        n \in {"arrival", "voulez-vous"}, a \in {<<>>} \cup {<<x>> : x \in ArtistRefs}}

\* the database artists match_artist is called for
DbArtistRows ==
    {[item_id |-> 1, name |-> "Abba", sort_name |-> "abba", musicbrainz_id |-> NoMbid,
      provider_ids |-> ms] : ms \in (SUBSET RepoMappings) \ {{}}}

\* lines 266-270: the search strings of a reference track
TrackSearchStrings(db, ref) ==
    << db.name \o " - " \o ref.name, db.name \o " " \o ref.name, ref.name >>

\* lines 295-299: the search strings of a reference album
AlbumSearchStrings(db, ref) ==
    << ref.name, db.name \o " - " \o ref.name, db.name \o " " \o ref.name >>

\* line 101
TypesOf(pids) == {m.prov_type : m \in pids}

\* lines 103-106: the provider is passed over
Skipped(prov, types) == prov.type \in types \/ ~prov.artists

\* lines 274-280: the credited artists that pass both comparisons, in scan order
RECURSIVE TrackConfirmations(_, _, _)
TrackConfirmations(results, ref, db) ==
    IF results = <<>> THEN <<>>
    ELSE (IF Head(results).sort_name # ref.sort_name THEN <<>>
          ELSE SelectSeq(Head(results).artists, LAMBDA a : a.sort_name = db.sort_name))
         \o TrackConfirmations(Tail(results), ref, db)

\* lines 303-313: the album artists that pass the comparisons, in scan order
RECURSIVE AlbumConfirmations(_, _, _)
AlbumConfirmations(results, ref, db) ==
    IF results = <<>> THEN <<>>
    ELSE (IF \/ Head(results).artist = <<>>
             \/ Head(results).sort_name # ref.sort_name
             \/ Head(results).artist[1].sort_name # ref.artist[1].sort_name
          THEN <<>>
          ELSE Head(results).artist)
         \o AlbumConfirmations(Tail(results), ref, db)

\* a track result that matches on its sort_name and credits an artist with the
\* sort_name of the database artist
TrackDoubleMatch(results, ref, db) ==
    \E i \in 1..Len(results) :
        /\ results[i].sort_name = ref.sort_name
        /\ \E k \in 1..Len(results[i].artists) :
              results[i].artists[k].sort_name = db.sort_name

\* an album result with an artist that matches on its sort_name and whose
\* artist has the sort_name of the database artist
AlbumDoubleMatch(results, ref, db) ==
    \E i \in 1..Len(results) :
        /\ results[i].artist # <<>>
        /\ results[i].sort_name = ref.sort_name
        /\ results[i].artist[1].sort_name = db.sort_name

\* lines 283-285 / 316-319: get_provider_item of the confirmed artist
ProvArtist(ref, type, prov_id, mbid) ==
    [name |-> ref.name, sort_name |-> ref.sort_name, musicbrainz_id |-> mbid,
     provider_ids |-> {Mapping(type, prov_id, ref.item_id)}]

\* the provider artists a confirmed artist reference of provider type may resolve to
ProvArtists(ref, type) ==
    {ProvArtist(ref, type, Providers[i].id, g) :
        i \in {x \in 1..Len(Providers) : Providers[x].type = type}, g \in {NoMbid, "mb-1"}}

\* faulty variant: goes on with the search strings after a confirmed match
TrackPositionNoReturn(confirmed, r, s, n) ==
    IF s < 3 THEN [pc |-> "tracks", ri |-> r, si |-> s + 1]
    ELSE IF r < n THEN [pc |-> "tracks", ri |-> r + 1, si |-> 1]
    ELSE [pc |-> "albums_start", ri |-> 0, si |-> 0]

\* lines 260-287: where _match stands after a track search: returned (line 287),
\* at the next search string, at the next reference track, or at line 289
TrackPosition(confirmed, r, s, n) ==
    IF confirmed THEN [pc |-> "return_true", ri |-> 0, si |-> 0]
    ELSE IF s < 3 THEN [pc |-> "tracks", ri |-> r, si |-> s + 1]
    ELSE IF r < n THEN [pc |-> "tracks", ri |-> r + 1, si |-> 1]
    ELSE [pc |-> "albums_start", ri |-> 0, si |-> 0]

\* lines 290-294: the next reference album that is searched for, 0 when none is left
NextAlbum(albums, from) ==
    LET ok == {i \in from..Len(albums) :
                  albums[i].album_type # "compilation" /\ albums[i].artist # <<>>}
    IN  IF ok = {} THEN 0 ELSE CHOOSE i \in ok : \A j \in ok : i <= j

\* lines 290-322: where _match stands after an album search
AlbumPosition(confirmed, albums, r, s) ==
    IF confirmed THEN [pc |-> "return_true", ri |-> 0, si |-> 0]
    ELSE IF s < 3 THEN [pc |-> "albums", ri |-> r, si |-> s + 1]
    ELSE IF NextAlbum(albums, r + 1) # 0
         THEN [pc |-> "albums", ri |-> NextAlbum(albums, r + 1), si |-> 1]
    ELSE [pc |-> "return_false", ri |-> 0, si |-> 0]

\* faulty variant: leaves the loop when a _match found nothing
NextProviderStopOnFailure(i, result) ==
    IF result = "true" THEN i + 1 ELSE Len(Providers) + 1

\* line 102: the loop goes on with the next provider whatever _match returned
NextProvider(i, result) == i + 1

\* _match goes on at pos, or returns to the loop of match_artist (lines 107-114)
Proceed(pos) ==
    IF pos.pc = "return_true" \/ pos.pc = "return_false"
    THEN LET result == IF pos.pc = "return_true" THEN "true" ELSE "false"
         IN  /\ mpc' = "loop"
             /\ attempts' = [attempts EXCEPT ![pidx] = result]
             /\ cur_prov_types' = IF result = "true"
                                  THEN cur_prov_types \cup {Providers[pidx].type}
                                  ELSE cur_prov_types
             /\ pidx' = NextProvider(pidx, result)
             /\ ri' = 0
             /\ si' = 0
    ELSE /\ mpc' = pos.pc
         /\ ri' = pos.ri
         /\ si' = pos.si
         /\ UNCHANGED <<attempts, cur_prov_types, pidx>>

ResultOf(pos, log) ==
    IF pos.pc = "return_true" THEN "true"
    ELSE IF pos.pc = "return_false" THEN "false" ELSE log.result

\* match_artist is called for a database artist, or for an item of a provider
MatchInit ==
    /\ MergeIdle
    /\ FetchIdle
    /\ OthersIdle
    /\ \E row \in DbArtistRows :
          /\ artists = <<row>>
          /\ \E pr \in {"database", "spotify"} :
                marg = [item_id |-> row.item_id, name |-> row.name,
                        sort_name |-> row.sort_name, provider |-> pr,
                        provider_ids |-> row.provider_ids]
    /\ last = NoCall
    /\ ncalls = 0
    /\ mpc = "idle"
    /\ pidx = 0
    /\ cur_prov_types = {}
    /\ refs = <<>>
    /\ ri = 0
    /\ si = 0
    /\ attempts = [i \in 1..Len(Providers) |-> "none"]
    /\ mlog = NoMatchLog

\* lines 98-101: the assertion and cur_prov_types
MatchArtistStart ==
    /\ mpc = "idle"
    /\ IF marg.provider # "database"
       THEN /\ mpc' = "raised"
            /\ UNCHANGED <<pidx, cur_prov_types>>
       ELSE /\ mpc' = "loop"
            /\ pidx' = 1
            /\ cur_prov_types' = TypesOf(marg.provider_ids)
    /\ UNCHANGED <<marg, refs, ri, si, attempts, mlog>>
    /\ UNCHANGED <<repoVars, mergeVars, fetchVars, addVars, deleteVars, updateVars>>

\* line 102: the providers are exhausted
MatchArtistDone ==
    /\ mpc = "loop"
    /\ pidx > Len(Providers)
    /\ mpc' = "done"
    /\ UNCHANGED <<marg, pidx, cur_prov_types, refs, ri, si, attempts, mlog>>
    /\ UNCHANGED <<repoVars, mergeVars, fetchVars, addVars, deleteVars, updateVars>>

\* lines 103-106: continue
MatchArtistSkip ==
    /\ mpc = "loop"
    /\ pidx <= Len(Providers)
    /\ Skipped(Providers[pidx], cur_prov_types)
    /\ attempts' = [attempts EXCEPT ![pidx] = "skipped"]
    /\ pidx' = pidx + 1
    /\ UNCHANGED <<marg, mpc, cur_prov_types, refs, ri, si, mlog>>
    /\ UNCHANGED <<repoVars, mergeVars, fetchVars, addVars, deleteVars, updateVars>>

\* lines 107, 260: _match is entered and toptracks returns the reference tracks
MatchStart ==
    /\ mpc = "loop"
    /\ pidx <= Len(Providers)
    /\ ~Skipped(Providers[pidx], cur_prov_types)
    /\ \E tracks \in SeqsUpTo(RefTracks, MaxRefs) :
          /\ refs' = tracks
          /\ IF tracks = <<>>
             THEN mpc' = "albums_start" /\ ri' = 0 /\ si' = 0
             ELSE mpc' = "tracks" /\ ri' = 1 /\ si' = 1
    /\ mlog' = [NoMatchLog EXCEPT !.prov = pidx, !.before = artists, !.result = "running"]
    /\ UNCHANGED <<marg, pidx, cur_prov_types, attempts>>
    /\ UNCHANGED <<repoVars, mergeVars, fetchVars, addVars, deleteVars, updateVars>>

\* lines 271-287: one tracks.search and the scan of its results
TrackSearch ==
    /\ mpc = "tracks"
    /\ si \in DOMAIN TrackSearchStrings(marg, refs[ri])
    /\ \E results \in SeqsUpTo(TrackResults, MaxResults) :
          LET found == TrackConfirmations(results, refs[ri], marg)
              pos == TrackPosition(found # <<>>, ri, si, Len(refs))
              double == TrackDoubleMatch(results, refs[ri], marg)
          IN  /\ IF found # <<>>
                 THEN /\ \E pa \in ProvArtists(Head(found), Providers[pidx].type) :
                            UpdateDbItem(marg.item_id, pa, FALSE)
                      /\ mlog' = [mlog EXCEPT
                            !.nsearch = @ + 1, !.nupdate = @ + 1,
                            !.trackHit = @ \/ double,
                            !.hitAt = IF ~mlog.trackHit /\ double THEN mlog.nsearch + 1 ELSE @,
                            !.sawDouble = @ \/ double,
                            !.result = ResultOf(pos, mlog)]
                 ELSE /\ UNCHANGED <<artists, last>>
                      /\ mlog' = [mlog EXCEPT
                            !.nsearch = @ + 1,
                            !.trackHit = @ \/ double,
                            !.hitAt = IF ~mlog.trackHit /\ double THEN mlog.nsearch + 1 ELSE @,
                            !.sawDouble = @ \/ double,
                            !.result = ResultOf(pos, mlog)]
              /\ Proceed(pos)
    /\ UNCHANGED <<marg, refs, ncalls>>
    /\ UNCHANGED <<mergeVars, fetchVars, addVars, deleteVars, updateVars>>

\* line 289: albums returns the reference albums
AlbumsStart ==
    /\ mpc = "albums_start"
    /\ \E albums \in SeqsUpTo(RefAlbums, MaxRefs) :
          /\ refs' = albums
          /\ LET first == NextAlbum(albums, 1)
                 pos == IF first = 0 THEN [pc |-> "return_false", ri |-> 0, si |-> 0]
                        ELSE [pc |-> "albums", ri |-> first, si |-> 1]
             IN  /\ Proceed(pos)
                 /\ mlog' = [mlog EXCEPT !.result = ResultOf(pos, mlog)]
    /\ UNCHANGED <<marg>>
    /\ UNCHANGED <<repoVars, mergeVars, fetchVars, addVars, deleteVars, updateVars>>

\* lines 300-321: one albums.search and the scan of its results
AlbumSearch ==
    /\ mpc = "albums"
    /\ si \in DOMAIN AlbumSearchStrings(marg, refs[ri])
    /\ \E results \in SeqsUpTo(AlbumResults, MaxResults) :
          LET found == AlbumConfirmations(results, refs[ri], marg)
              pos == AlbumPosition(found # <<>>, refs, ri, si)
              double == AlbumDoubleMatch(results, refs[ri], marg)
          IN  /\ IF found # <<>>
                 THEN /\ \E pa \in ProvArtists(Head(found), Providers[pidx].type) :
                            UpdateDbItem(marg.item_id, pa, FALSE)
                      /\ mlog' = [mlog EXCEPT
                            !.nsearch = @ + 1, !.nupdate = @ + 1,
                            !.sawDouble = @ \/ double,
                            !.albumHit = <<[artist |-> Head(found).sort_name,
                                            ref_artist |-> refs[ri].artist[1].sort_name]>>,
                            !.result = ResultOf(pos, mlog)]
                 ELSE /\ UNCHANGED <<artists, last>>
                      /\ mlog' = [mlog EXCEPT
                            !.nsearch = @ + 1,
                            !.sawDouble = @ \/ double,
                            !.result = ResultOf(pos, mlog)]
              /\ Proceed(pos)
    /\ UNCHANGED <<marg, refs, ncalls>>
    /\ UNCHANGED <<mergeVars, fetchVars, addVars, deleteVars, updateVars>>

\* an awaited provider, cache or database call of _match raises; neither
\* _match nor match_artist catches it
MatchRaise ==
    /\ mpc \in {"tracks", "albums_start", "albums"}
    /\ mpc' = "raised"
    /\ mlog' = [mlog EXCEPT !.result = "raised"]
    /\ UNCHANGED <<marg, pidx, cur_prov_types, refs, ri, si, attempts>>
    /\ UNCHANGED <<repoVars, mergeVars, fetchVars, addVars, deleteVars, updateVars>>

MatchNext ==
    \/ MatchArtistStart
    \/ MatchArtistDone
    \/ MatchArtistSkip
    \/ MatchStart
    \/ TrackSearch
    \/ AlbumsStart
    \/ AlbumSearch
    \/ MatchRaise

SpecMatch == MatchInit /\ [][MatchNext]_vars

\* the row of the database artist match_artist was called for
MatchedRow == GetDbItem(artists, marg.item_id)

\* C8: when a track search returns a track with the sort_name of the reference
\* track that credits an artist with the sort_name of the database artist,
\* _match returns True, the row holds the mappings of that artist of the
\* candidate provider, and _match made exactly one (merge) update and no
\* search after the confirming one.
C8_TrackConfirmationWins ==
    mlog.trackHit =>
        /\ mlog.result = "true"
        /\ attempts[mlog.prov] = "true"
        /\ mlog.nupdate = 1
        /\ mlog.nsearch = mlog.hitAt
        /\ last.op = "update" /\ ~last.overwrite /\ ~last.raised
        /\ last.item.sort_name = marg.sort_name
        /\ TypesOf(last.item.provider_ids) = {Providers[mlog.prov].type}
        /\ last.item.provider_ids \subseteq MatchedRow.provider_ids

\* the second search string of the reference track brought the confirmation,
\* and the row gained a mapping
C8_Witness ==
    /\ mlog.trackHit
    /\ mlog.result = "true"
    /\ mlog.hitAt = 2
    /\ MatchedRow.provider_ids # mlog.before[1].provider_ids

\* C9: when no search of the track phase and no search of the album phase
\* returned a result that matches on its sort_name and on the sort_name of the
\* database artist, _match returns False and has made no update: the row is as
\* it was.
C9_NoDoubleMatchNoUpdate ==
    (mlog.result \in {"true", "false"} /\ ~mlog.sawDouble) =>
        /\ mlog.result = "false"
        /\ mlog.nupdate = 0
        /\ artists = mlog.before

\* C17: when an album search of _match confirms a result (merge update and
\* return True), the artist of that result has the sort_name of the database
\* artist.
C17_AlbumConfirmationNeedsDbArtist ==
    mlog.albumHit # <<>> => mlog.albumHit[1].artist = marg.sort_name

\* the providers _match was called for
Attempted(i) == attempts[i] \in {"true", "false"}

\* C10: match_artist calls _match for a registered provider exactly when the
\* provider supports artists and its type is neither among the types of the
\* artist's provider_ids at the start of the call nor the type of a provider
\* for which _match returned True earlier in the call; after a _match that
\* returned False the loop goes on.
C10_AttemptedExactlyUnlinked ==
    mpc = "done" =>
        \A i \in 1..Len(Providers) :
            Attempted(i) <=>
                /\ Providers[i].artists
                /\ Providers[i].type \notin TypesOf(marg.provider_ids)
                /\ ~\E j \in 1..(i - 1) :
                        attempts[j] = "true" /\ Providers[j].type = Providers[i].type

\* a failed _match, then a successful one, then a provider passed over for the
\* type just linked, one for the type linked from the start and one that does
\* not support artists
C10_Witness ==
    /\ mpc = "done"
    /\ attempts = <<"false", "true", "skipped", "skipped", "skipped">>
    /\ TypesOf(marg.provider_ids) = {"qobuz"}

(***************************************************************************)
(* delete_db_item                                                          *)
(***************************************************************************)
\* the most rows TABLE_TRACKS / TABLE_ALBUMS hold
MaxRows == 2

\* the artists table delete_db_item runs on
StoredArtists ==
    [i \in 1..3 |->
        [item_id |-> <<1, 2, 12>>[i], name |-> "Abba", sort_name |-> "abba",
         musicbrainz_id |-> NoMbid, provider_ids |-> {Mapping("qobuz", "qobuz_1", "qb-1")}]]

\* the artists of a track / album: lists of artist item_ids
ArtistLists == {<<1>>, <<2>>, <<12>>, <<2, 1>>}

\* one artist reference as the artists column holds it
ArtistJson(id) == "{\"item_id\":\"" \o ToString(id) \o "\",\"provider\":\"database\"}"

RECURSIVE ArtistsJoined(_)
ArtistsJoined(ids) ==
    IF Len(ids) = 1 THEN ArtistJson(Head(ids))
    ELSE ArtistJson(Head(ids)) \o "," \o ArtistsJoined(Tail(ids))

\* the serialized artists column of a track / album row
ArtistsJson(ids) == "[" \o ArtistsJoined(ids) \o "]"

\* the tables TABLE_TRACKS / TABLE_ALBUMS may be: rowid, serialized artists
DependentTables ==
    {[i \in 1..Len(cols) |-> [item_id |-> i, artists |-> ArtistsJson(cols[i])]] :
        cols \in SeqsUpTo(ArtistLists, MaxRows)}

\* lines 244, 247: the pattern between the % signs of artists LIKE '%"{item_id}"%'
LikePattern(item_id) == "\"" \o ToString(item_id) \o "\""

\* SQL: str LIKE '%pat%'
Like(str, pat) ==
    \E i \in 1..(Len(str) - Len(pat) + 1) : SubSeq(str, i, i + Len(pat) - 1) = pat

\* lines 243-248: delete_where_query(table, artists LIKE '%"{item_id}"%')
DeleteWhereArtistsLike(tbl, item_id) ==
    SelectSeq(tbl, LAMBDA row : ~Like(row.artists, LikePattern(item_id)))

\* super().delete_db_item(item_id, db): the row with the item_id is deleted
DeleteRow(tbl, item_id) == SelectSeq(tbl, LAMBDA row : row.item_id # item_id)

\* faulty variant: deletes the artist before its tracks and albums
ArtistFirst == <<"artist", "tracks", "albums">>

\* lines 243-250: the order of the three deletes
DeleteOrder == <<"tracks", "albums", "artist">>

\* the call goes on with its next statement, or returns after the last
Advance(d) ==
    IF d.step = Len(DeleteOrder) THEN [d EXCEPT !.pc = "done", !.step = @ + 1]
    ELSE [d EXCEPT !.step = @ + 1]

\* delete_db_item(item_id) is called for a stored or an unknown item_id
DeleteInit ==
    /\ MergeIdle
    /\ FetchIdle
    /\ MatchIdle
    /\ AddIdle
    /\ UpdatesIdle
    /\ artists = StoredArtists
    /\ last = NoCall
    /\ ncalls = 0
    /\ db_tracks \in DependentTables
    /\ db_albums \in DependentTables
    /\ \E id \in {1, 2, 3} : dcall = [pc |-> "running", step |-> 1, item_id |-> id]

\* lines 243-245
DeleteTracks ==
    /\ dcall.pc = "running"
    /\ DeleteOrder[dcall.step] = "tracks"
    /\ db_tracks' = DeleteWhereArtistsLike(db_tracks, dcall.item_id)
    /\ dcall' = Advance(dcall)
    /\ UNCHANGED db_albums
    /\ UNCHANGED <<repoVars, mergeVars, fetchVars, matchVars, addVars, updateVars>>

\* lines 246-248
DeleteAlbums ==
    /\ dcall.pc = "running"
    /\ DeleteOrder[dcall.step] = "albums"
    /\ db_albums' = DeleteWhereArtistsLike(db_albums, dcall.item_id)
    /\ dcall' = Advance(dcall)
    /\ UNCHANGED db_tracks
    /\ UNCHANGED <<repoVars, mergeVars, fetchVars, matchVars, addVars, updateVars>>

\* line 250
DeleteArtist ==
    /\ dcall.pc = "running"
    /\ DeleteOrder[dcall.step] = "artist"
    /\ artists' = DeleteRow(artists, dcall.item_id)
    /\ dcall' = Advance(dcall)
    /\ UNCHANGED <<last, ncalls, db_tracks, db_albums>>
    /\ UNCHANGED <<mergeVars, fetchVars, matchVars, addVars, updateVars>>

\* the database call the delete stands at raises and so does delete_db_item
DeleteRaise ==
    /\ dcall.pc = "running"
    /\ dcall' = [dcall EXCEPT !.pc = "raised"]
    /\ UNCHANGED <<db_tracks, db_albums>>
    /\ UNCHANGED <<repoVars, mergeVars, fetchVars, matchVars, addVars, updateVars>>

DeleteNext == DeleteTracks \/ DeleteAlbums \/ DeleteArtist \/ DeleteRaise

SpecDelete == DeleteInit /\ [][DeleteNext]_vars

\* the rows of a tracks / albums table whose artists hold the artist item_id
Referencing(tbl, item_id) ==
    {i \in 1..Len(tbl) :
        \E ids \in ArtistLists :
            /\ tbl[i].artists = ArtistsJson(ids)
            /\ \E k \in 1..Len(ids) : ids[k] = item_id}

InterleaveInit ==
    /\ MergeIdle
    /\ FetchIdle
    /\ MatchIdle
    /\ AddIdle
    /\ DeleteIdle
    /\ last = NoCall
    /\ ncalls = 0
    /\ \E row \in DbArtistRows :
          /\ artists = <<row>>
          /\ \E a, b \in ArtistItems :
                ucalls = [c \in 1..2 |->
                            [pc |-> "start", item_id |-> row.item_id,
                             item |-> <<a, b>>[c], cur_item |-> <<>>,
                             initial |-> row.provider_ids]]

\* line 208: cur_item = await self.get_db_item(item_id)
UpdateRead(c) ==
    /\ ucalls[c].pc = "start"
    /\ ucalls' = [ucalls EXCEPT ![c].pc = "read",
                                ![c].cur_item = <<GetDbItem(artists, ucalls[c].item_id)>>]
    /\ UNCHANGED <<repoVars, mergeVars, fetchVars, matchVars, addVars, deleteVars>>

\* lines 209-236: the row is built from cur_item and the item, and written
UpdateWrite(c) ==
    /\ ucalls[c].pc = "read"
    /\ artists' = [i \in 1..Len(artists) |->
                    IF artists[i].item_id = ucalls[c].item_id
                    THEN UpdatedRow(ucalls[c].cur_item[1], ucalls[c].item, FALSE)
                    ELSE artists[i]]
    /\ last' = [op |-> "update", item_id |-> ucalls[c].item_id, item |-> ucalls[c].item,
                overwrite |-> FALSE, before |-> artists,
                raised |-> FALSE, event |-> "MEDIA_ITEM_UPDATED"]
    /\ ucalls' = [ucalls EXCEPT ![c].pc = "done"]
    /\ UNCHANGED ncalls
    /\ UNCHANGED <<mergeVars, fetchVars, matchVars, addVars, deleteVars>>

InterleaveNext ==
    \/ \E c \in 1..Len(ucalls) : UpdateRead(c)
    \/ \E c \in 1..Len(ucalls) : UpdateWrite(c)

SpecInterleave == InterleaveInit /\ [][InterleaveNext]_vars

\* C19: when two merge-mode update_db_item calls on one row have both
\* returned, however their reads and writes interleaved, the row's
\* provider_ids hold the row's initial provider_ids and those of both items.
C19_InterleavedMergesKeepMappings ==
    (ucalls # <<>> /\ \A c \in 1..Len(ucalls) : ucalls[c].pc = "done") =>
        \A c \in 1..Len(ucalls) :
            /\ ucalls[c].initial \subseteq GetDbItem(artists, ucalls[c].item_id).provider_ids
            /\ ucalls[c].item.provider_ids
                    \subseteq GetDbItem(artists, ucalls[c].item_id).provider_ids

(***************************************************************************)
(* add                                                                     *)
(***************************************************************************)
\* the artists add is called with: one known to spotify_1, one without provider_ids
AddItems ==
    { [name |-> "Abba", sort_name |-> "abba", musicbrainz_id |-> NoMbid, provider_ids |-> ms] :
        ms \in {{Mapping("spotify", "spotify_1", "sp-1")}, {}} }

\* the table add is called on: empty, or holding the artist as qobuz_1 knows it
AddTables == {<<>>} \cup {<<row>> : row \in {r \in DbArtistRows : TypesOf(r.provider_ids) = {"qobuz"}}}

\* line 85: the musicbrainz ids get_artist_metadata may leave on the item
MetadataMbids(item) ==
    IF item.musicbrainz_id # NoMbid THEN {item.musicbrainz_id} ELSE {NoMbid, "mb-1"}

\* the database item add_db_item returns, as match_artist receives it
DbItem(row) ==
    [item_id |-> row.item_id, name |-> row.name, sort_name |-> row.sort_name,
     provider |-> "database", provider_ids |-> row.provider_ids]

\* add(item) is called
AddInit ==
    /\ MergeIdle
    /\ FetchIdle
    /\ DeleteIdle
    /\ UpdatesIdle
    /\ artists \in AddTables
    /\ last = NoCall
    /\ ncalls = 0
    /\ \E item \in AddItems : addcall = [pc |-> "metadata", item |-> item, created |-> 0]
    /\ marg = <<>>
    /\ mpc = "idle"
    /\ pidx = 0
    /\ cur_prov_types = {}
    /\ refs = <<>>
    /\ ri = 0
    /\ si = 0
    /\ attempts = [i \in 1..Len(Providers) |-> "none"]
    /\ mlog = NoMatchLog

\* line 85: await self.mass.metadata.get_artist_metadata(item)
AddMetadata ==
    /\ addcall.pc = "metadata"
    /\ \E g \in MetadataMbids(addcall.item) :
          addcall' = [addcall EXCEPT !.pc = "add_db_item", !.item.musicbrainz_id = g]
    /\ UNCHANGED <<repoVars, mergeVars, fetchVars, matchVars, deleteVars, updateVars>>

\* lines 86-88: add_db_item runs; when it returns, match_artist is called with
\* the database item
AddInsertOrMerge ==
    /\ addcall.pc = "add_db_item"
    /\ AddDbItem(addcall.item, FALSE)
    /\ IF last'.raised
       THEN /\ addcall' = [addcall EXCEPT !.pc = "raised"]
            /\ UNCHANGED marg
       ELSE /\ addcall' = [addcall EXCEPT
                            !.pc = "matching",
                            !.created = IF last'.event = "MEDIA_ITEM_ADDED"
                                        THEN last'.item_id ELSE 0]
            /\ marg' = DbItem(GetDbItem(artists', last'.item_id))
    /\ UNCHANGED <<ncalls, mpc, pidx, cur_prov_types, refs, ri, si, attempts, mlog>>
    /\ UNCHANGED <<mergeVars, fetchVars, deleteVars, updateVars>>

\* line 88: match_artist runs
AddMatching == addcall.pc = "matching" /\ MatchNext

\* lines 89-90: match_artist returned; the database item is read and returned
AddReturn ==
    /\ addcall.pc = "matching"
    /\ mpc = "done"
    /\ addcall' = [addcall EXCEPT !.pc = "done"]
    /\ UNCHANGED <<repoVars, mergeVars, fetchVars, matchVars, deleteVars, updateVars>>

\* line 88: match_artist raised; add does not catch it
AddMatchRaised ==
    /\ addcall.pc = "matching"
    /\ mpc = "raised"
    /\ addcall' = [addcall EXCEPT !.pc = "raised"]
    /\ UNCHANGED <<repoVars, mergeVars, fetchVars, matchVars, deleteVars, updateVars>>

\* the metadata call (line 85) or a database call of lines 86 / 89 raises
\* before it changed anything
AddRaise ==
    /\ \/ addcall.pc \in {"metadata", "add_db_item"}
       \/ addcall.pc = "matching" /\ mpc = "done"
    /\ addcall' = [addcall EXCEPT !.pc = "raised"]
    /\ UNCHANGED <<repoVars, mergeVars, fetchVars, matchVars, deleteVars, updateVars>>

AddNext ==
    \/ AddMetadata
    \/ AddInsertOrMerge
    \/ AddMatching
    \/ AddReturn
    \/ AddMatchRaised
    \/ AddRaise

SpecAdd == AddInit /\ [][AddNext]_vars

\* C11: when add has raised, the table holds no row that this call inserted.
C11_FailedAddLeavesNoRecord ==
    addcall.pc = "raised" => addcall.created \notin ItemIds(artists)

====
